---------------------------- MODULE Spec2Model ----------------------------
(***************************************************************************)
(* Neural-HMM alignment core (TTS/tts/layers/neural_hmm/hmm.py) and the    *)
(* MDN / monotonic-alignment path of AlignTTS (TTS/tts/models/align_tts.py)*)
(*                                                                         *)
(* Number representation.  Every log-domain quantity v of the code is held *)
(* as the exact rational e^v = <<n, d>> (d > 0, lowest terms):             *)
(*     -inf  is <<0, 1>>      0.0 is <<1, 1>>      NaN is <<0, 0>>         *)
(*     a + b (log domain)        is the product   LAdd(a, b)               *)
(*     a - b (log domain)        is the quotient  LSub(a, b)               *)
(*     logsumexp                 is the sum       LSE(a, b)                *)
(* Floating-point rounding is not modelled; -inf and NaN propagation is.   *)
(* A transition logit is held as a code k in -2..2 standing for the logits *)
(* -big, ln(1/3), 0, ln 3, +big, so that sigmoid is exact: 0, 1/4, 1/2,    *)
(* 3/4, 1 (the two ends are the values a saturated float sigmoid returns). *)
(* A predicted log-duration of AlignTTS is held the same way, as its        *)
(* exponential; a target frame of HMM.forward is held as its 1-based       *)
(* position in mels, the go token as 0.                                    *)
(* Tensor indices are 0-based in the code and 1-based in the sequences     *)
(* here; state numbers kept in variables (current_z_number, z) are 0-based.*)
(***************************************************************************)
EXTENDS Integers, Sequences, FiniteSets, TLC

\* ------------------------------------------------------------------ bounds
MaxN == 3            \* largest number of hidden states of a sampled sequence
MaxBudget == 3       \* largest step budget T handed to sample
MaxLoop == 4         \* cap on iterations explored when sample runs with no budget
FwdMaxN == 3         \* largest padded number of states of a forward batch
FwdMaxT == 3         \* largest padded number of frames of a forward batch
TrMaxN == 3          \* largest number of states of a direct TransitionModel call
AlMaxTen == 3        \* largest padded encoder length of an alignment call
AlMaxTde == 3        \* largest padded decoder length of an alignment call
MaxArOrder == 2      \* largest autoregressive order an HMM is constructed with
MaxMean == 3         \* largest mean handed to EmissionModel.sample
MaxStd == 3          \* largest standard deviation handed to EmissionModel.sample
MaxTemp == 2         \* largest sampling temperature
CallsMaxN == 2       \* largest padded number of states when forward is called repeatedly
CallsMaxT == 2       \* largest padded number of frames when forward is called repeatedly
MaxCalls == 2        \* forward calls followed on one module
MaxPhases == 3       \* largest number of entries of phase_start_steps
MaxStartStep == 2    \* largest entry of phase_start_steps
MaxSteps == 3        \* largest trainer.total_steps_done followed
MaxBatchSize == 2    \* largest batch_size of a model-hub factory object
MaxHubCalls == 2     \* model-hub factory calls followed
FdMaxTen == 2        \* largest padded encoder length of a format_durations call

\* -------------------------------------------------------------- arithmetic
RECURSIVE GCD(_, _)
GCD(a, b) == IF b = 0 THEN a ELSE GCD(b, a % b)

Max(a, b) == IF a >= b THEN a ELSE b
Min(a, b) == IF a <= b THEN a ELSE b

Norm(n, d) == LET g == GCD(n, d) IN IF g = 0 THEN <<0, 0>> ELSE <<n \div g, d \div g>>

NaN == <<0, 0>>
NegInf == <<0, 1>>
LZero == <<1, 1>>
PosInf == <<1, 0>>

IsNaN(a) == a = NaN
IsFinite(a) == a[2] # 0 /\ a[1] # 0

RMul(a, b) == Norm(a[1] * b[1], a[2] * b[2])
RAdd(a, b) == Norm(a[1] * b[2] + b[1] * a[2], a[2] * b[2])
RLess(a, b) == a[1] * b[2] < b[1] * a[2]
RLeq(a, b) == a[1] * b[2] <= b[1] * a[2]

\* log-domain a + b
LAdd(a, b) ==
    IF IsNaN(a) \/ IsNaN(b) THEN NaN
    ELSE IF (a = PosInf /\ b = NegInf) \/ (a = NegInf /\ b = PosInf) THEN NaN
    ELSE IF a = PosInf \/ b = PosInf THEN PosInf
    ELSE RMul(a, b)

\* log-domain a - b
LSub(a, b) ==
    IF IsNaN(a) \/ IsNaN(b) THEN NaN
    ELSE IF (a = NegInf /\ b = NegInf) \/ (a = PosInf /\ b = PosInf) THEN NaN
    ELSE IF b = NegInf \/ a = PosInf THEN PosInf
    ELSE IF b = PosInf THEN NegInf
    ELSE Norm(a[1] * b[2], a[2] * b[1])

\* torch.logsumexp of two values
LSE(a, b) ==
    IF IsNaN(a) \/ IsNaN(b) THEN NaN
    ELSE IF a = PosInf \/ b = PosInf THEN PosInf
    ELSE RAdd(a, b)

\* elementwise product of a log-domain value with a 0/1 mask entry
MaskMul(a, m) ==
    IF m = 1 THEN a
    ELSE IF IsFinite(a) THEN LZero
    ELSE NaN

\* ------------------------------------------------------------------ logits
Logits == {-1, 0, 1}
SatLogits == {-2, -1, 0, 1, 2}

Sigmoid(k) ==
    CASE k = -2 -> <<0, 1>>
      [] k = -1 -> <<1, 4>>
      [] k = 0 -> <<1, 2>>
      [] k = 1 -> <<3, 4>>
      [] k = 2 -> <<1, 1>>

\* ======================================================== HMM.sample state
VARIABLES
    pc,                         \* position of the call in progress
    N,                          \* self.N
    T,                          \* the budget in force (0: none)
    t,
    z,                          \* hidden states travelled
    x,                          \* emitted frames, each held as the state that emitted it
    current_z_number,
    quantile,
    deterministic_transition,
    duration_quantile_threshold,
    max_sampling_time,          \* self.max_sampling_time (0: none)
    T_arg,                      \* the argument T as the caller gave it (0: not given)
    switch,                     \* the transition decision of the last iteration
    stay_run,                   \* staying_probability of each iteration since the last advance
    sample_prenet_input,        \* sample's local prenet_input, as the prenet last saw it
    ar_mel_inputs,              \* sample's local ar_mel_inputs
    \* HMM.__init__ and HMM.forward, for one item of the batch; the rest of the
    \* batch enters only through the padded sizes N = inputs.shape[1] and
    \* T_max = max(mel_lens)
    ar_order,                   \* the constructor's ar_order, then self.ar_order
    prenet_input,               \* the frames handed to the prenet at the last timestep
    inputs_len,
    T_max,
    mel_lens,
    log_alpha_scaled,           \* self.log_alpha_scaled[b]: T_max rows of N values
    transition_vector,          \* self.transition_vector[b]: T_max rows of N logits
    log_c,                      \* log_c[b]: T_max values
    emission,                   \* per step, the Gaussian log-likelihood of mels[b, t] per state
    final_log_c,                \* the local of get_absorption_state_scaling_factor
    sum_final_log_c,
    log_probs,
    unmasked,                   \* <<log_c, log_alpha_scaled>> as they were when the loop ended
    hmm_means,                  \* self.means: per entry, the memory state the mean was computed from
    h_memory,                   \* forward's local memory-cell state: the prenet inputs fed since zero
    calls,                      \* forward calls started on this module
    \* TransitionModel.forward called on its own: arguments, fields and locals
    prev_log_alpha,             \* argument log_alpha_scaled: one row of N values
    logit_row,                  \* argument transition_vector: one row of N logits
    staying_p,                  \* self.staying_p
    transition_pr,              \* self.transition_pr
    staying,                    \* local staying (line 402)
    leaving,                    \* local leaving after line 405
    out,                        \* the returned row
    \* AlignTTS alignment path, for one item of the batch
    T_en, T_de,                 \* padded encoder and decoder lengths
    x_len, y_len,               \* x_lengths[b], y_lengths[b]
    log_p,                      \* compute_log_probs(mu, log_sigma, y)[b]: T_en rows of T_de values
    attn,                       \* the hard alignment of compute_align_path
    dr_mas,
    attn_dr,                    \* convert_dr_to_align(dr_mas, x_mask, y_mask)[b]
    o_en_ex,                    \* expand_encoder_outputs(en, dr_mas, x_mask, y_mask)[0][b], per frame
    \* EmissionModel.sample called on its own, for one element of the tensors
    means, stds, sampling_temp, \* the arguments
    x_t,                        \* what the call returned and how it was obtained
    \* AlignTTS.format_durations as inference calls it, for one item
    o_dr_log,                   \* the predicted log-durations, each held as its exponential
    x_mask_len,                 \* the number of ones of x_mask
    length_scale,               \* self.length_scale, a rational <<n, d>>
    o_dr,                       \* the durations of the last call
    y_lengths,                  \* per call made so far: <<length_scale, o_dr.sum(1)>>
    alignments,                 \* inference's attn for the last call, as [encoder position][frame]
    \* AlignTTS training phases
    phase_start_steps,          \* trainer.config.phase_start_steps: [is_list, vals]
    total_steps_done,           \* trainer.total_steps_done
    phase,                      \* self.phase
    outputs,                    \* what the last forward returned: <<key, value>> pairs
    raised,                     \* the exception the last forward ended with ("" if none)
    \* TTS.auto_tts.model_hub
    configs,                    \* the module-level config objects, by imported name
    returned                    \* per factory call: the object returned and the values given

svars == <<pc, N, T, t, z, x, current_z_number, quantile,
           deterministic_transition, duration_quantile_threshold, max_sampling_time,
           T_arg, switch, stay_run, sample_prenet_input, ar_mel_inputs>>

fvars == <<ar_order, prenet_input, inputs_len, T_max, mel_lens, log_alpha_scaled,
           transition_vector, log_c, emission, final_log_c, sum_final_log_c, log_probs,
           unmasked, hmm_means, h_memory, calls>>

tvars == <<prev_log_alpha, logit_row, staying_p, transition_pr, staying, leaving, out>>

avars == <<T_en, T_de, x_len, y_len, log_p, attn, dr_mas, attn_dr, o_en_ex>>

evars == <<means, stds, sampling_temp, x_t>>

dvars == <<o_dr_log, x_mask_len, length_scale, o_dr, y_lengths, alignments>>

pvars == <<phase_start_steps, total_steps_done, phase, outputs, raised>>

hvars == <<configs, returned>>

vars == <<svars, fvars, tvars, avars, evars, dvars, pvars, hvars>>

EmissionSampleIdle ==
    /\ means = 0 /\ stds = 1 /\ sampling_temp = 1 /\ x_t = <<>>

FormatDurationsIdle ==
    /\ o_dr_log = <<>> /\ x_mask_len = 0 /\ length_scale = <<1, 1>>
    /\ o_dr = <<>> /\ y_lengths = <<>> /\ alignments = <<>>

\* line 85: self.phase = -1
PhaseIdle ==
    /\ phase_start_steps = [is_list |-> FALSE, vals |-> <<>>]
    /\ total_steps_done = 0 /\ phase = -1 /\ outputs = {} /\ raised = ""

HubIdle == configs = <<>> /\ returned = <<>>

AlignIdle ==
    /\ T_en = 0 /\ T_de = 0 /\ x_len = 0 /\ y_len = 0
    /\ log_p = <<>> /\ attn = <<>> /\ dr_mas = <<>> /\ attn_dr = <<>> /\ o_en_ex = <<>>

TransitionIdle ==
    /\ prev_log_alpha = <<>> /\ logit_row = <<>> /\ staying_p = <<>>
    /\ transition_pr = <<>> /\ staying = <<>> /\ leaving = <<>> /\ out = <<>>

\* the variables of sample that a forward call leaves alone
sconf == <<T, z, x, current_z_number, quantile, deterministic_transition,
           duration_quantile_threshold, max_sampling_time,
           T_arg, switch, stay_run, sample_prenet_input, ar_mel_inputs>>

SampleIdle ==
    /\ T = 0 /\ z = <<>> /\ x = <<>> /\ current_z_number = 0 /\ quantile = <<1, 1>>
    /\ deterministic_transition = FALSE /\ duration_quantile_threshold = <<1, 2>>
    /\ max_sampling_time = 0
    /\ T_arg = 0 /\ switch = FALSE /\ stay_run = <<>>
    /\ sample_prenet_input = <<>> /\ ar_mel_inputs = <<>>

ForwardTensorsIdle ==
    /\ ar_order = 1 /\ prenet_input = <<>>
    /\ T_max = 0 /\ mel_lens = 0
    /\ log_alpha_scaled = <<>> /\ transition_vector = <<>> /\ log_c = <<>>
    /\ emission = <<>> /\ final_log_c = <<>> /\ sum_final_log_c = NaN /\ log_probs = NaN
    /\ unmasked = <<>>
    /\ hmm_means = <<>> /\ h_memory = <<>> /\ calls = 0

ForwardIdle == inputs_len = 0 /\ ForwardTensorsIdle

\* line 343: (current_z_number == self.N) or (T and t == T - 1)
BreakCondLate(cz, n, budget, step) == (cz = n) \/ (budget # 0 /\ step = budget)
BreakCondBudgetOnly(cz, n, budget, step) == budget # 0 /\ step = budget - 1
BreakCond(cz, n, budget, step) == (cz = n) \/ (budget # 0 /\ step = budget - 1)

\* lines 332-335: the transition decision.  draw is the index multinomial(1)
\* returns from (staying_probability, transition_probability): an index of
\* probability zero is never drawn.
SwitchOutcomesNotStrict(det, q, threshold, tv) ==
    IF det THEN {RLeq(q, threshold)}
    ELSE {d \in {FALSE, TRUE} :
            IF d THEN Sigmoid(tv) # <<0, 1>> ELSE Sigmoid(-tv) # <<0, 1>>}
SwitchOutcomes(det, q, threshold, tv) ==
    IF det THEN {RLess(q, threshold)}
    ELSE {d \in {FALSE, TRUE} :
            IF d THEN Sigmoid(tv) # <<0, 1>> ELSE Sigmoid(-tv) # <<0, 1>>}

\* lines 337-339: if switch: current_z_number += 1
NextZSkip(cz, sw) == IF sw THEN cz + 2 ELSE cz
NextZ(cz, sw) == IF sw THEN cz + 1 ELSE cz

\* lines 291-292: if not T: T = self.max_sampling_time
BudgetInForceNoDefault(budget, default) == budget
BudgetInForce(budget, default) == IF budget = 0 THEN default ELSE budget

\* the go token (line 68: zeros); a frame is held as its 1-based position in the
\* sequence of frames, the go token as 0
GoToken == 0

\* line 295: self.go_tokens.unsqueeze(0), ar_order go tokens
GoTokens(order) == [j \in 1..order |-> GoToken]

\* line 326: torch.cat((ar_mel_inputs, x_t), dim=1)[:, 1:]
ShiftIn(window, frame) == Tail(Append(window, frame))

SampleInit ==
    /\ PhaseIdle
    /\ HubIdle
    /\ ForwardIdle
    /\ TransitionIdle
    /\ AlignIdle
    /\ EmissionSampleIdle
    /\ FormatDurationsIdle
    /\ pc = "sample_call"
    /\ N \in 1..MaxN
    /\ T \in 0..MaxBudget
    /\ T_arg = T
    /\ switch = FALSE /\ stay_run = <<>>
    /\ sample_prenet_input = <<>> /\ ar_mel_inputs = <<>>
    /\ max_sampling_time \in {0, MaxBudget}
    /\ deterministic_transition \in BOOLEAN
    /\ duration_quantile_threshold = <<1, 2>>
    /\ t = 0
    /\ z = <<>>
    /\ x = <<>>
    /\ current_z_number = 0
    /\ quantile = <<1, 1>>

\* lines 291-308
SampleEnter ==
    /\ pc = "sample_call"
    /\ T' = BudgetInForce(T, max_sampling_time)
    /\ sample_prenet_input' = GoTokens(ar_order)
    /\ ar_mel_inputs' = GoTokens(ar_order)
    /\ switch' = FALSE
    /\ stay_run' = <<>>
    /\ UNCHANGED T_arg
    /\ z' = <<0>>
    /\ x' = <<>>
    /\ t' = 0
    /\ current_z_number' = 0
    /\ quantile' = <<1, 1>>
    /\ pc' = "sample_loop"
    /\ UNCHANGED <<N, deterministic_transition, duration_quantile_threshold, max_sampling_time>>
    /\ UNCHANGED <<fvars, tvars, avars, evars, dvars, pvars, hvars>>

\* lines 310-346: one iteration of the while loop.  The memory-cell update, the
\* emitted frame's value and the two diagnostic lists take no part in z, in the
\* number of frames or in the loop conditions; the network's transition logit
\* for the current state is an input of the step.  prenet_input is read at line
\* 310 and assigned nowhere in the loop; ar_mel_inputs is taken as holding the
\* go tokens when the loop starts.
SampleStep ==
    /\ pc = "sample_loop"
    /\ UNCHANGED <<fvars, tvars, avars, evars, dvars, pvars, hvars>>
    /\ T = 0 => Len(x) < MaxLoop
    /\ IF current_z_number >= N
       THEN \* line 314: inputs[:, current_z_number] is out of range
            /\ pc' = "sample_raised"
            /\ UNCHANGED <<N, T, t, z, x, current_z_number, quantile,
                           deterministic_transition, duration_quantile_threshold,
                           max_sampling_time, T_arg, switch, stay_run,
                           sample_prenet_input, ar_mel_inputs>>
       ELSE \E tv \in SatLogits :
              LET staying_probability == Sigmoid(-tv)
                  q1 == RMul(quantile, staying_probability)
              IN \E sw \in SwitchOutcomes(deterministic_transition, q1,
                                          duration_quantile_threshold, tv) :
                   LET cz1 == NextZ(current_z_number, sw)
                   IN /\ x' = Append(x, current_z_number)
                      /\ sample_prenet_input' = sample_prenet_input
                      /\ ar_mel_inputs' = ShiftIn(ar_mel_inputs, Len(x) + 1)
                      /\ switch' = sw
                      /\ stay_run' = Append(IF switch THEN <<>> ELSE stay_run,
                                            staying_probability)
                      /\ UNCHANGED T_arg
                      /\ current_z_number' = cz1
                      /\ quantile' = IF sw THEN <<1, 1>> ELSE q1
                      /\ z' = Append(z, cz1)
                      /\ IF BreakCond(cz1, N, T, t)
                         THEN pc' = "sample_done" /\ t' = t
                         ELSE pc' = "sample_loop" /\ t' = t + 1
                      /\ UNCHANGED <<N, T, deterministic_transition,
                                     duration_quantile_threshold, max_sampling_time>>

SampleNext == SampleEnter \/ SampleStep

SpecSample == SampleInit /\ [][SampleNext]_vars

SampleRunning == pc \in {"sample_loop", "sample_done", "sample_raised"}

\* C1: with a step budget in force, sample emits at most T frames, whatever the
\* stay/advance outcomes: the loop is never entered again once T frames exist.
C1_BudgetIsAbsoluteCap ==
    (SampleRunning /\ T # 0) =>
        /\ Len(x) <= T
        /\ pc = "sample_loop" => Len(x) < T
        /\ pc = "sample_loop" => t = Len(x)

\* C1 witness: a deterministic-mode run whose transition model always stays
\* (running product still 1) ends exactly at the budget.
C1_Witness ==
    /\ pc = "sample_done" /\ T = MaxBudget /\ Len(x) = T
    /\ deterministic_transition /\ current_z_number = 0 /\ quantile = <<1, 1>>

\* C2: the trace z starts with 0, never decreases, grows by at most 1 per entry
\* and stays within 0..N, at every point of the loop and on return.
C2_TraceMonotoneNoSkip ==
    SampleRunning =>
        /\ Len(z) >= 1 /\ z[1] = 0
        /\ \A k \in 1..Len(z) : z[k] >= 0 /\ z[k] <= N
        /\ \A k \in 1..(Len(z) - 1) : z[k + 1] - z[k] \in {0, 1}

\* C2 witness: a returned trace that both stayed and advanced and reached N.
C2_Witness ==
    /\ pc = "sample_done" /\ N >= 2 /\ z[Len(z)] = N
    /\ \E k \in 1..(Len(z) - 1) : z[k + 1] = z[k]

\* C3: every iteration starts with the index below N (no out-of-range read of the
\* encoder output, no frame emitted from state N), and sample returns only with
\* the last trace entry equal to N or with exactly T frames emitted.
C3_StopsAtFinalStateOrBudget ==
    /\ pc # "sample_raised"
    /\ pc = "sample_loop" => current_z_number < N
    /\ SampleRunning => \A k \in 1..Len(x) : x[k] < N
    /\ pc = "sample_done" => (z[Len(z)] = N \/ (T # 0 /\ Len(x) = T))

\* C3 witness: a return caused by reaching the final state before the budget.
C3_Witness ==
    /\ pc = "sample_done" /\ z[Len(z)] = N /\ T # 0 /\ Len(x) < T /\ N >= 2


\* ============================================================ tensor helpers
\* sequence_mask(lengths)[i] for the 1-based position i: 1 inside the length
SequenceMask(len, i) == IF i <= len THEN 1 ELSE 0

\* log_clamped(x): the log of x, x held as given (see the representation above)
LogClamped(p) == p

\* torch.logsumexp(row, dim=1) over the first n entries
RECURSIVE LogSumExp(_, _)
LogSumExp(row, n) == IF n = 0 THEN NegInf ELSE LSE(LogSumExp(row, n - 1), row[n])

\* torch.sum(row, dim=1) of log-domain values over the first n entries
RECURSIVE LogSum(_, _)
LogSum(row, n) == IF n = 0 THEN LZero ELSE LAdd(LogSum(row, n - 1), row[n])

\* ======================================================= TransitionModel
\* line 402: staying = log_alpha_scaled + log_staying_probability
StayingSignSlip(alpha, tv, n) ==
    [i \in 1..n |-> LAdd(alpha[i], LogClamped(Sigmoid(tv[i])))]
Staying(alpha, tv, n) ==
    [i \in 1..n |-> LAdd(alpha[i], LogClamped(Sigmoid(-tv[i])))]

\* line 403: leaving = log_alpha_scaled + log_transition_probability
LeavingSignSlip(alpha, tv, n) ==
    [i \in 1..n |-> LAdd(alpha[i], LogClamped(Sigmoid(-tv[i])))]
Leaving(alpha, tv, n) ==
    [i \in 1..n |-> LAdd(alpha[i], LogClamped(Sigmoid(tv[i])))]

\* line 404: leaving.roll(1, dims=1)
Roll(row, n) == [i \in 1..n |-> IF i = 1 THEN row[n] ELSE row[i - 1]]

\* lines 404-405: the rolled row with position 0 overwritten by -inf
LeavingInWrapped(alpha, tv, n) == Roll(Leaving(alpha, tv, n), n)
LeavingIn(alpha, tv, n) ==
    [i \in 1..n |-> IF i = 1 THEN NegInf ELSE Roll(Leaving(alpha, tv, n), n)[i]]

\* lines 394-409
TransitionForwardUnmasked(alpha, tv, len, n) ==
    [i \in 1..n |-> LSE(Staying(alpha, tv, n)[i], LeavingIn(alpha, tv, n)[i])]
TransitionForward(alpha, tv, len, n) ==
    [i \in 1..n |->
        IF SequenceMask(len, i) = 1
        THEN LSE(Staying(alpha, tv, n)[i], LeavingIn(alpha, tv, n)[i])
        ELSE NegInf]

\* the previous row of a direct call: each entry -inf or the log of 1/4, 1/2, 1
AlphaValues == {<<0, 1>>, <<1, 4>>, <<1, 2>>, <<1, 1>>}

TransitionInit ==
    /\ SampleIdle
    /\ PhaseIdle
    /\ HubIdle
    /\ ForwardTensorsIdle
    /\ AlignIdle
    /\ EmissionSampleIdle
    /\ FormatDurationsIdle
    /\ pc = "transition_call"
    /\ t = 0
    /\ N \in 1..TrMaxN
    /\ \E len \in 1..TrMaxN, a \in [1..TrMaxN -> AlphaValues], tv \in [1..TrMaxN -> Logits] :
         /\ len <= N
         /\ \A i \in (N + 1)..TrMaxN : a[i] = <<0, 1>> /\ tv[i] = 0
         /\ inputs_len = len
         /\ prev_log_alpha = [i \in 1..N |-> a[i]]
         /\ logit_row = [i \in 1..N |-> tv[i]]
    /\ staying_p = <<>> /\ transition_pr = <<>> /\ staying = <<>> /\ leaving = <<>>
    /\ out = <<>>

\* lines 378-409, with the fields set by _update_current_values (lines 370-376)
TransitionCall ==
    /\ pc = "transition_call"
    /\ transition_pr' = [i \in 1..N |-> Sigmoid(logit_row[i])]
    /\ staying_p' = [i \in 1..N |-> Sigmoid(-logit_row[i])]
    /\ staying' = Staying(prev_log_alpha, logit_row, N)
    /\ leaving' = LeavingIn(prev_log_alpha, logit_row, N)
    /\ out' = TransitionForward(prev_log_alpha, logit_row, inputs_len, N)
    /\ pc' = "transition_done"
    /\ UNCHANGED <<N, t, prev_log_alpha, logit_row>>
    /\ UNCHANGED <<sconf, fvars, avars, evars, dvars, pvars, hvars>>

TransitionNext == TransitionCall

SpecTransition == TransitionInit /\ [][TransitionNext]_vars

\* C9: the advance contribution into state 0 is -inf: nothing wraps around from
\* the last state, and the value returned for state 0 is its stay term alone.
C9_NoAdvanceIntoStateZero ==
    pc = "transition_done" =>
        /\ leaving[1] = NegInf
        /\ out[1] = LAdd(prev_log_alpha[1], Sigmoid(-logit_row[1]))

\* C9 witness: the last state is valid and holds mass, which a wrapping shift
\* would carry into state 0.
C9_Witness ==
    /\ pc = "transition_done" /\ N >= 2 /\ inputs_len = N
    /\ IsFinite(prev_log_alpha[N]) /\ IsFinite(prev_log_alpha[1])
    /\ out[1] # NegInf

IsNormalized(row, n) == LogSumExp(row, n) = <<1, 1>>

\* C10: from a normalized previous row, every value returned for a valid state
\* is <= 0 (a log-probability) and the returned probabilities sum to at most 1.
C10_TransitionKeepsLogProbabilities ==
    (pc = "transition_done" /\ IsNormalized(prev_log_alpha, N)) =>
        /\ \A i \in 1..inputs_len : out[i] # NaN /\ RLeq(out[i], <<1, 1>>)
        /\ LogSumExp(out, N) # NaN
        /\ RLeq(LogSumExp(out, N), <<1, 1>>)

\* C10 witness: a normalized row spread over several states, all of them valid.
C10_Witness ==
    /\ pc = "transition_done" /\ N >= 2 /\ inputs_len = N
    /\ IsNormalized(prev_log_alpha, N)
    /\ \A i \in 1..2 : IsFinite(prev_log_alpha[i])
    /\ IsFinite(out[2])

\* C11 (as claimed): the stay term of state i is the previous log-prob of i plus
\* log(sigmoid(logit of i)), and the advance term into state i is the previous
\* log-prob of state i-1 plus log(sigmoid(-logit of i-1)).
C11_StayIsSigmoidOfLogit ==
    pc = "transition_done" =>
        /\ \A i \in 1..N :
             staying[i] = LAdd(prev_log_alpha[i], LogClamped(Sigmoid(logit_row[i])))
        /\ \A i \in 2..N :
             leaving[i] = LAdd(prev_log_alpha[i - 1], LogClamped(Sigmoid(-logit_row[i - 1])))

\* C11 (amended): the stay term of state i is the previous log-prob of i plus
\* log(sigmoid(-logit of i)), the advance term into state i is the previous
\* log-prob of state i-1 plus log(sigmoid(logit of i-1)), and the value returned
\* for a valid state is the log-sum-exp of its two terms.
C11_StayIsSigmoidOfMinusLogit ==
    pc = "transition_done" =>
        /\ \A i \in 1..N :
             /\ staying_p[i] = Sigmoid(-logit_row[i])
             /\ transition_pr[i] = Sigmoid(logit_row[i])
             /\ staying[i] = LAdd(prev_log_alpha[i], LogClamped(Sigmoid(-logit_row[i])))
        /\ \A i \in 2..N :
             leaving[i] = LAdd(prev_log_alpha[i - 1], LogClamped(Sigmoid(logit_row[i - 1])))
        /\ \A i \in 1..inputs_len : out[i] = LSE(staying[i], leaving[i])

\* C11 witness: two valid states holding mass, with logits whose sigmoid is not
\* 1/2, so that the two sign conventions give different terms.
C11_Witness ==
    /\ pc = "transition_done" /\ N >= 2 /\ inputs_len >= 2
    /\ IsFinite(prev_log_alpha[1]) /\ IsFinite(prev_log_alpha[2])
    /\ logit_row[1] = 1 /\ logit_row[2] = -1
    /\ staying[2] = LAdd(prev_log_alpha[2], <<3, 4>>)
    /\ leaving[2] = LAdd(prev_log_alpha[1], <<3, 4>>)

\* ========================================================= EmissionModel
\* lines 441-445: the per-state log-likelihood (feature axis summed) times the
\* state mask
EmissionForward(loglik, len, n) ==
    [i \in 1..n |-> MaskMul(loglik[i], SequenceMask(len, i))]

\* ============================================================ HMM.forward
\* The outputs of output_net and of the Gaussian log_prob at one timestep are
\* inputs of the model: a row of log-likelihoods and a row of transition logits,
\* drawn from two small families.
EmissionValues == <<(<<1, 2>>), (<<1, 1>>), (<<3, 2>>)>>
EmissionSeeds == 0..2
LogitSeeds == 0..1
EmissionRow(seed, n) == [i \in 1..n |-> EmissionValues[((seed + i) % 3) + 1]]
LogitRow(seed, n) == [i \in 1..n |-> ((2 * seed + i) % 3) - 1]

\* lines 350-359
InitializeLogStatePriorsFlat(n) == [i \in 1..n |-> LZero]
InitializeLogStatePriors(n) == [i \in 1..n |-> IF i = 1 THEN LZero ELSE NegInf]

ForwardInit ==
    /\ SampleIdle
    /\ PhaseIdle
    /\ HubIdle
    /\ TransitionIdle
    /\ AlignIdle
    /\ EmissionSampleIdle
    /\ FormatDurationsIdle
    /\ pc = "hmm_init"
    /\ ar_order \in -1..MaxArOrder
    /\ prenet_input = <<>>
    /\ N \in 1..FwdMaxN
    /\ inputs_len \in 1..N
    /\ T_max \in 1..FwdMaxT
    /\ mel_lens \in 1..T_max
    /\ t = 0
    /\ log_alpha_scaled = <<>> /\ transition_vector = <<>> /\ log_c = <<>>
    /\ emission = <<>> /\ final_log_c = <<>> /\ sum_final_log_c = NaN /\ log_probs = NaN
    /\ unmasked = <<>>
    /\ hmm_means = <<>> /\ h_memory = <<>> /\ calls = 0

\* line 55: assert ar_order > 0
ArOrderAcceptedZero(order) == order >= 0
ArOrderAccepted(order) == order > 0

\* lines 46-68: the constructor; the assertion either raises (no object is
\* returned, nothing can be called on it) or lets the construction finish
HMMInit ==
    /\ pc = "hmm_init"
    /\ pc' = IF ArOrderAccepted(ar_order) THEN "forward_call" ELSE "init_raised"
    /\ UNCHANGED <<N, t, fvars>>
    /\ UNCHANGED <<sconf, tvars, avars, evars, dvars, pvars, hvars>>

\* lines 184-186: torch.cat((go_tokens, mel_inputs), dim=1)[:, :T]
AddGoToken(order, tlen) ==
    SubSeq([i \in 1..(order + tlen) |-> IF i <= order THEN GoToken ELSE i - order],
           1, tlen)

\* line 172: ar_inputs[:, t : t + self.ar_order]
PrenetInput(step, ar_inputs, order) ==
    SubSeq(ar_inputs, step + 1, Min(step + order, Len(ar_inputs)))

\* line 203: self.means = []
InitializeMeansKept(old) == old
InitializeMeans(old) == <<>>

\* lines 207-225: zeros; the memory state is held as the inputs fed since zero
InitLstmStates == <<>>

\* line 174: self.memory_rnn(memory_inputs, (h_memory, c_memory))
MemoryRnn(memory_inputs, memory) == Append(memory, memory_inputs)

\* lines 89-99 and 189-205
ForwardEnter ==
    /\ pc = "forward_call"
    /\ UNCHANGED <<ar_order, prenet_input, final_log_c>>
    /\ log_alpha_scaled' = [k \in 1..T_max |-> [i \in 1..N |-> LZero]]
    /\ transition_vector' = [k \in 1..T_max |-> [i \in 1..N |-> 0]]
    /\ log_c' = [k \in 1..T_max |-> LZero]
    /\ emission' = <<>>
    /\ hmm_means' = InitializeMeans(hmm_means)
    /\ h_memory' = InitLstmStates
    /\ calls' = calls + 1
    /\ t' = 0
    /\ pc' = "forward_loop"
    /\ UNCHANGED <<N, inputs_len, T_max, mel_lens, sum_final_log_c, log_probs, unmasked>>
    /\ UNCHANGED <<sconf, tvars, avars, evars, dvars, pvars, hvars>>

\* lines 108-113
LogAlphaTemp(step, loglik, tv, alpha, len, n) ==
    IF step = 0
    THEN [i \in 1..n |->
            LAdd(InitializeLogStatePriors(n)[i], EmissionForward(loglik, len, n)[i])]
    ELSE [i \in 1..n |->
            LAdd(EmissionForward(loglik, len, n)[i],
                 TransitionForward(alpha[step], tv, len, n)[i])]

\* lines 101-119: one iteration of the timestep loop
ForwardStep ==
    /\ pc = "forward_loop"
    /\ t < T_max
    /\ \E es \in EmissionSeeds, ls \in LogitSeeds :
         LET loglik == EmissionRow(es, N)
             tv == LogitRow(ls, N)
             temp == LogAlphaTemp(t, loglik, tv, log_alpha_scaled, inputs_len, N)
             c == LogSumExp(temp, N)
         IN /\ log_c' = [log_c EXCEPT ![t + 1] = c]
            /\ log_alpha_scaled' =
                 [log_alpha_scaled EXCEPT ![t + 1] = [i \in 1..N |-> LSub(temp[i], c)]]
            /\ transition_vector' = [transition_vector EXCEPT ![t + 1] = tv]
            /\ emission' = Append(emission, loglik)
    /\ prenet_input' = PrenetInput(t, AddGoToken(ar_order, T_max), ar_order)
    /\ h_memory' = MemoryRnn(prenet_input', h_memory)
    /\ hmm_means' = Append(hmm_means, h_memory')
    /\ UNCHANGED calls
    /\ t' = t + 1
    /\ UNCHANGED <<ar_order, final_log_c>>
    /\ UNCHANGED <<pc, N, inputs_len, T_max, mel_lens, sum_final_log_c, log_probs, unmasked>>
    /\ UNCHANGED <<sconf, tvars, avars, evars, dvars, pvars, hvars>>

\* lines 140-141
MaskLogC(c, lens, tmax) == [k \in 1..tmax |-> MaskMul(c[k], SequenceMask(lens, k))]

\* lines 142-143
MaskLogAlphaScaled(alpha, lens, tmax, n) ==
    [k \in 1..tmax |-> [i \in 1..n |-> MaskMul(alpha[k][i], SequenceMask(lens, k))]]

\* line 121 and lines 129-144
ForwardMaskLengths ==
    /\ pc = "forward_loop"
    /\ t = T_max
    /\ unmasked' = <<log_c, log_alpha_scaled>>
    /\ log_c' = MaskLogC(log_c, mel_lens, T_max)
    /\ log_alpha_scaled' = MaskLogAlphaScaled(log_alpha_scaled, mel_lens, T_max, N)
    /\ pc' = "forward_masked"
    /\ UNCHANGED <<ar_order, prenet_input, final_log_c, hmm_means, h_memory, calls>>
    /\ UNCHANGED <<N, inputs_len, T_max, mel_lens, t, transition_vector, emission,
                   sum_final_log_c, log_probs>>
    /\ UNCHANGED <<sconf, tvars, avars, evars, dvars, pvars, hvars>>

\* lines 261-268: the state whose transition probability is kept
LastTransitionIndexPadded(len, n) == n
LastTransitionIndex(len, n) == len

\* lines 248-255: the row of the last valid timestep, states beyond the valid
\* length filled with -inf
LastLogAlphaScaledPadded(alpha, lens, len, n) ==
    [i \in 1..n |-> IF SequenceMask(len, i) = 1 THEN alpha[Len(alpha)][i] ELSE NegInf]
LastLogAlphaScaled(alpha, lens, len, n) ==
    [i \in 1..n |-> IF SequenceMask(len, i) = 1 THEN alpha[lens][i] ELSE NegInf]

\* lines 257-268: the log transition probability of the last valid timestep,
\* every state but the last valid one filled with -inf
LogProbabilityOfStaying(tvs, lens, len, n) ==
    [i \in 1..n |->
        IF i = LastTransitionIndex(len, n)
        THEN LogClamped(Sigmoid(-tvs[lens][i])) ELSE NegInf]
LogProbabilityOfTransitioningUnmasked(tvs, lens, len, n) ==
    [i \in 1..n |-> LogClamped(Sigmoid(tvs[lens][i]))]
LogProbabilityOfTransitioning(tvs, lens, len, n) ==
    [i \in 1..n |->
        IF i = LastTransitionIndex(len, n)
        THEN LogClamped(Sigmoid(tvs[lens][i])) ELSE NegInf]

\* lines 248-269
FinalLogC(alpha, tvs, lens, len, n) ==
    [i \in 1..n |->
        LAdd(LastLogAlphaScaled(alpha, lens, len, n)[i],
             LogProbabilityOfTransitioning(tvs, lens, len, n)[i])]

\* lines 227-275
GetAbsorptionStateScalingFactor(alpha, tvs, lens, len, n) ==
    LogSumExp(FinalLogC(alpha, tvs, lens, len, n), n)

\* lines 123-127
ForwardReturn ==
    /\ pc = "forward_masked"
    /\ LET final == GetAbsorptionStateScalingFactor(log_alpha_scaled, transition_vector,
                                                    mel_lens, inputs_len, N)
       IN /\ sum_final_log_c' = final
          /\ log_probs' = LAdd(LogSum(log_c, T_max), final)
    /\ final_log_c' = FinalLogC(log_alpha_scaled, transition_vector, mel_lens, inputs_len, N)
    /\ pc' = "forward_done"
    /\ UNCHANGED <<ar_order, prenet_input, hmm_means, h_memory, calls>>
    /\ UNCHANGED <<N, inputs_len, T_max, mel_lens, t, log_alpha_scaled,
                   transition_vector, log_c, emission, unmasked>>
    /\ UNCHANGED <<sconf, tvars, avars, evars, dvars, pvars, hvars>>

ForwardNext == HMMInit \/ ForwardEnter \/ ForwardStep \/ ForwardMaskLengths \/ ForwardReturn

SpecForward == ForwardInit /\ [][ForwardNext]_vars

\* ------------------------------------------ HMM.forward called repeatedly
\* a constructed module (ar_order = 1) about to be called for the first time
ForwardCallsInit ==
    /\ SampleIdle
    /\ PhaseIdle
    /\ HubIdle
    /\ TransitionIdle
    /\ AlignIdle
    /\ EmissionSampleIdle
    /\ FormatDurationsIdle
    /\ pc = "forward_call"
    /\ ar_order = 1
    /\ prenet_input = <<>>
    /\ log_alpha_scaled = <<>> /\ transition_vector = <<>> /\ log_c = <<>>
    /\ emission = <<>> /\ final_log_c = <<>> /\ sum_final_log_c = NaN /\ log_probs = NaN
    /\ unmasked = <<>>
    /\ hmm_means = <<>> /\ h_memory = <<>> /\ calls = 0
    /\ N \in 1..CallsMaxN
    /\ inputs_len \in 1..N
    /\ T_max \in 1..CallsMaxT
    /\ mel_lens \in 1..T_max
    /\ t = 0

\* line 70: forward is called again on the same module with another batch; the
\* locals of the call that returned are gone, the attributes are as it left them
ForwardAgain ==
    /\ pc = "forward_done"
    /\ calls < MaxCalls
    /\ pc' = "forward_call"
    /\ N' \in 1..CallsMaxN
    /\ inputs_len' \in 1..N'
    /\ T_max' \in 1..CallsMaxT
    /\ mel_lens' \in 1..T_max'
    /\ t' = 0
    /\ log_c' = <<>> /\ emission' = <<>> /\ final_log_c' = <<>>
    /\ sum_final_log_c' = NaN /\ log_probs' = NaN /\ unmasked' = <<>>
    /\ prenet_input' = <<>> /\ h_memory' = <<>>
    /\ UNCHANGED <<ar_order, log_alpha_scaled, transition_vector, hmm_means, calls>>
    /\ UNCHANGED <<sconf, tvars, avars, evars, dvars, pvars, hvars>>

ForwardCallsNext ==
    ForwardEnter \/ ForwardStep \/ ForwardMaskLengths \/ ForwardReturn \/ ForwardAgain

SpecForwardCalls == ForwardCallsInit /\ [][ForwardCallsNext]_vars


\* ------------------------------------------------ reference: path enumeration
\* the left-to-right no-skip state paths over tlen frames that start in state 0
\* and are in the last valid state (len - 1) at the last frame
Paths(tlen, len) ==
    {p \in [1..tlen -> 1..len] :
        /\ p[1] = 1
        /\ p[tlen] = len
        /\ \A k \in 1..(tlen - 1) : p[k + 1] - p[k] \in {0, 1}}

\* probability of the frames along path p: emissions, the stay/advance
\* probabilities of the logits predicted at each later frame, and the advance out
\* of the last valid state with the logits of the last frame
RECURSIVE PathWeight(_, _, _, _)
PathWeight(p, k, loglik, tvs) ==
    IF k = 0 THEN <<1, 1>>
    ELSE RMul(PathWeight(p, k - 1, loglik, tvs),
              RMul(loglik[k][p[k]],
                   IF k = 1 THEN <<1, 1>>
                   ELSE IF p[k] = p[k - 1] THEN Sigmoid(-tvs[k][p[k - 1]])
                   ELSE Sigmoid(tvs[k][p[k - 1]])))

RECURSIVE RSumOver(_, _, _, _)
RSumOver(S, tlen, loglik, tvs) ==
    IF S = {} THEN <<0, 1>>
    ELSE LET p == CHOOSE q \in S : TRUE
         IN RAdd(RMul(PathWeight(p, tlen, loglik, tvs), Sigmoid(tvs[tlen][p[tlen]])),
                 RSumOver(S \ {p}, tlen, loglik, tvs))

TotalPathProbability ==
    RSumOver(Paths(mel_lens, inputs_len), mel_lens, emission, transition_vector)

C5_MaskedEntriesExactlyZero ==
    pc \in {"forward_masked", "forward_done"} =>
        \A k \in 1..T_max :
            IF k > mel_lens
            THEN log_c[k] = LZero /\ \A i \in 1..N : log_alpha_scaled[k][i] = LZero
            ELSE log_c[k] = unmasked[1][k] /\ log_alpha_scaled[k] = unmasked[2][k]

\* C12: at every timestep written by the loop, scaled log-alpha is -inf for
\* every state beyond the timestep (state i > t) and for every state at or beyond
\* the valid encoder length; after timestep 0 state 0 alone is not -inf.
C12_LogAlphaReachability ==
    pc = "forward_loop" =>
        /\ \A k \in 1..t : \A i \in 1..N :
             (i > k \/ i > inputs_len) => log_alpha_scaled[k][i] = NegInf
        /\ t >= 1 => IsFinite(log_alpha_scaled[1][1])

\* C12 witness: three timesteps of a padded item with two valid states: the
\* second state holds mass from the second timestep on, the third never does.
C12_Witness ==
    /\ pc = "forward_loop" /\ t = 3 /\ N = 3 /\ inputs_len = 2
    /\ log_alpha_scaled[1][2] = NegInf /\ IsFinite(log_alpha_scaled[2][2])
    /\ log_alpha_scaled[3][3] = NegInf

C15_ArOrderChecked ==
    /\ ar_order <= 0 => pc \in {"hmm_init", "init_raised"}
    /\ ar_order >= 1 => pc # "init_raised"

\* C15 witness: the construction with ar_order = 0 has raised.
C15_Witness == pc = "init_raised" /\ ar_order = 0

\* target frames t - ar_order .. t - 1 in order, the go token for indices below 0
ExpectedWindow(step, order) ==
    [j \in 1..order |-> IF step - order + j - 1 < 0 THEN GoToken ELSE step - order + j]

\* C18 (as claimed): at every timestep the prenet input is exactly ar_order
\* frames, target frames t - ar_order .. t - 1 in order with the go token in
\* place of every index below 0.
C18_WindowIsLastArOrderFrames ==
    (pc \in {"forward_loop", "forward_masked", "forward_done"} /\ t >= 1) =>
        /\ Len(prenet_input) = ar_order
        /\ prenet_input = ExpectedWindow(t - 1, ar_order)

\* the same for ar_order = 1, the order the window is right for
WindowRightForOrderOne ==
    (pc \in {"forward_loop", "forward_masked", "forward_done"} /\ t >= 1 /\ ar_order = 1) =>
        prenet_input = ExpectedWindow(t - 1, ar_order)

\* C19: the absorption correction is scaled log-alpha at (last valid timestep,
\* last valid state) plus log(sigmoid(logit saved at that timestep and state));
\* no other state has a term in it, whatever the padded sizes.
C19_AbsorptionTerm ==
    pc = "forward_done" =>
        /\ sum_final_log_c =
             LAdd(unmasked[2][mel_lens][inputs_len],
                  LogClamped(Sigmoid(transition_vector[mel_lens][inputs_len])))
        /\ \A i \in 1..N : i # inputs_len => final_log_c[i] = NegInf

\* C19 witness: an item shorter than the batch on both axes, with mass in two
\* states at its last valid timestep.
C19_Witness ==
    /\ pc = "forward_done" /\ mel_lens = 2 /\ T_max = 3 /\ inputs_len = 2 /\ N = 3
    /\ IsFinite(unmasked[2][2][1]) /\ IsFinite(unmasked[2][2][2])
    /\ IsFinite(sum_final_log_c)

RECURSIVE SumTo(_, _)
SumTo(f, n) == IF n = 0 THEN 0 ELSE SumTo(f, n - 1) + f[n]

\* lines 119 and 128: unsqueeze(x_mask, -1) * unsqueeze(y_mask, 2), one item
AttnMaskNoXMask(xl, yl, ten, tde) ==
    [i \in 1..ten |-> [j \in 1..tde |-> SequenceMask(yl, j)]]
AttnMaskNoYMask(xl, yl, ten, tde) ==
    [i \in 1..ten |-> [j \in 1..tde |-> SequenceMask(xl, i)]]
AttnMask(xl, yl, ten, tde) ==
    [i \in 1..ten |-> [j \in 1..tde |-> SequenceMask(xl, i) * SequenceMask(yl, j)]]

\* monotonic_align.maximum_path: the value given to a cell no path may come from
MaxNegVal == -1000000000

\* the cells a monotonic path from (0, 0) to (tx - 1, ty - 1) can visit
InBand(i, j, tx, ty) == i >= Max(1, tx + j - ty) /\ i <= Min(tx, j)

\* the dynamic-programming table: best total of a path ending in cell (i, j)
RECURSIVE PathValue(_, _, _, _, _)
PathValue(val, i, j, tx, ty) ==
    IF ~InBand(i, j, tx, ty) THEN val[i][j]
    ELSE LET v_cur == IF i = j THEN MaxNegVal ELSE PathValue(val, i, j - 1, tx, ty)
             v_prev == IF i = 1 THEN (IF j = 1 THEN 0 ELSE MaxNegVal)
                       ELSE PathValue(val, i - 1, j - 1, tx, ty)
         IN Max(v_cur, v_prev) + val[i][j]

\* the backtracking: the encoder position chosen for frame j, from the last
\* valid frame (position tx) down to the first
RECURSIVE PathIndex(_, _, _, _)
PathIndex(val, j, tx, ty) ==
    IF j = ty THEN tx
    ELSE LET index == PathIndex(val, j + 1, tx, ty)
         IN IF index # 1 /\ (index = j + 1
                             \/ PathValue(val, index, j, tx, ty)
                                  < PathValue(val, index - 1, j, tx, ty))
            THEN index - 1
            ELSE index

\* monotonic_align.maximum_path(value, mask), one item
MaximumPath(value, mask, ten, tde) ==
    LET val == [i \in 1..ten |-> [j \in 1..tde |-> value[i][j] * mask[i][j]]]
        tx == SumTo([i \in 1..ten |-> mask[i][1]], ten)
        ty == SumTo([j \in 1..tde |-> mask[1][j]], tde)
    IN [i \in 1..ten |-> [j \in 1..tde |->
          IF j <= ty /\ tx >= 1 /\ i = PathIndex(val, j, tx, ty) THEN 1 ELSE 0]]

\* monotonic_align.generate_path(duration, mask), one item
GeneratePath(duration, mask, ten, tde) ==
    LET cum == [i \in 0..ten |-> SumTo(duration, i)]
    IN [i \in 1..ten |-> [j \in 1..tde |->
          ((IF j <= cum[i] THEN 1 ELSE 0) - (IF j <= cum[i - 1] THEN 1 ELSE 0))
            * mask[i][j]]]

\* line 119-122: attn
AlignPath(value, xl, yl, ten, tde) ==
    MaximumPath(value, AttnMask(xl, yl, ten, tde), ten, tde)

\* line 123: dr_mas = torch.sum(attn, -1)
DrMas(a, ten, tde) == [i \in 1..ten |-> SumTo(a[i], tde)]

\* lines 126-130
ConvertDrToAlignSwapped(dr, xl, yl, ten, tde) ==
    GeneratePath(dr, AttnMask(yl, xl, ten, tde), ten, tde)
ConvertDrToAlign(dr, xl, yl, ten, tde) ==
    GeneratePath(dr, AttnMask(xl, yl, ten, tde), ten, tde)

LogPValues == {-2, -1}

\* the padding cells of log_p hold a value above every valid one
PadLogP == 1

AlignInit ==
    /\ SampleIdle
    /\ PhaseIdle
    /\ HubIdle
    /\ ForwardIdle
    /\ TransitionIdle
    /\ EmissionSampleIdle
    /\ FormatDurationsIdle
    /\ pc = "align_call"
    /\ N = 0 /\ t = 0
    /\ T_en \in 1..AlMaxTen
    /\ T_de \in 1..AlMaxTde
    /\ x_len \in 1..T_en
    /\ y_len \in 1..T_de
    /\ \E v \in [1..x_len -> [1..y_len -> LogPValues]] :
         log_p = [i \in 1..T_en |-> [j \in 1..T_de |->
                    IF i <= x_len /\ j <= y_len THEN v[i][j] ELSE PadLogP]]
    /\ attn = <<>> /\ dr_mas = <<>> /\ attn_dr = <<>> /\ o_en_ex = <<>>

\* lines 117-124 (called from _forward_mdn, lines 207-212)
ComputeAlignPath ==
    /\ pc = "align_call"
    /\ attn' = AlignPath(log_p, x_len, y_len, T_en, T_de)
    /\ dr_mas' = DrMas(AlignPath(log_p, x_len, y_len, T_en, T_de), T_en, T_de)
    /\ pc' = "align_path"
    /\ UNCHANGED <<T_en, T_de, x_len, y_len, log_p, attn_dr, o_en_ex>>
    /\ UNCHANGED <<N, t, sconf, fvars, tvars, evars, dvars, pvars, hvars>>

\* lines 126-130 (called from forward, line 233, and expand_encoder_outputs)
ConvertDrToAlignCall ==
    /\ pc = "align_path"
    /\ attn_dr' = ConvertDrToAlign(dr_mas, x_len, y_len, T_en, T_de)
    /\ pc' = "align_done"
    /\ UNCHANGED <<T_en, T_de, x_len, y_len, log_p, attn, dr_mas, o_en_ex>>
    /\ UNCHANGED <<N, t, sconf, fvars, tvars, evars, dvars, pvars, hvars>>

\* the encoder output of position i, one channel: distinct powers of two, so
\* that a sum of encoder outputs tells which positions went into it
En(ten) == [i \in 1..ten |-> 2 ^ (i - 1)]

\* line 147: torch.matmul(attn.transpose(1, 2), en.transpose(1, 2)), one item
MatMulShifted(a, en, ten, tde) ==
    [j \in 1..tde |-> SumTo([i \in 1..ten |-> a[i][j] * en[(i % ten) + 1]], ten)]
MatMul(a, en, ten, tde) ==
    [j \in 1..tde |-> SumTo([i \in 1..ten |-> a[i][j] * en[i]], ten)]

\* lines 132-148
ExpandEncoderOutputs(en, dr, xl, yl, ten, tde) ==
    MatMul(ConvertDrToAlign(dr, xl, yl, ten, tde), en, ten, tde)

\* line 196 of _forward_decoder, which forward calls with dr_mas (lines 238, 243, 249)
ExpandEncoderOutputsCall ==
    /\ pc = "align_done"
    /\ o_en_ex' = ExpandEncoderOutputs(En(T_en), dr_mas, x_len, y_len, T_en, T_de)
    /\ pc' = "align_expanded"
    /\ UNCHANGED <<T_en, T_de, x_len, y_len, log_p, attn, dr_mas, attn_dr>>
    /\ UNCHANGED <<N, t, sconf, fvars, tvars, evars, dvars, pvars, hvars>>

AlignNext == ComputeAlignPath \/ ConvertDrToAlignCall \/ ExpandEncoderOutputsCall

SpecAlign == AlignInit /\ [][AlignNext]_vars


AlignComputed == pc \in {"align_path", "align_done"}

\* the encoder positions frame j is assigned to
Assigned(j) == {i \in 1..T_en : attn[i][j] = 1}

\* every valid frame has one position; positions never decrease nor skip; the
\* first frame is at encoder position 0 and the last valid frame at the last
\* valid encoder position
MonotoneSurjectivePath ==
    /\ \A i \in 1..T_en : \A j \in 1..T_de : attn[i][j] \in {0, 1}
    /\ \A j \in 1..y_len : Cardinality(Assigned(j)) = 1
    /\ \A j \in 1..(y_len - 1) :
         \A a \in Assigned(j) : \A b \in Assigned(j + 1) : b - a \in {0, 1}
    /\ Assigned(1) = {1}
    /\ Assigned(y_len) = {x_len}

\* C6 (as claimed): for every input the hard alignment is a monotone no-skip
\* path from encoder position 0 to the last valid encoder position.
C6_PathForEveryInput == AlignComputed => MonotoneSurjectivePath

\* C6 (amended): the same, for every input whose valid decoder length is at
\* least its valid encoder length.
C6_PathWhenEnoughFrames ==
    (AlignComputed /\ y_len >= x_len) => MonotoneSurjectivePath

\* C6 witness: a padded item with more frames than positions, so that the path
\* both stays and advances.
C6_Witness ==
    /\ AlignComputed /\ x_len = 2 /\ y_len = 3 /\ T_en = 3 /\ T_de = 3
    /\ attn[1][2] = 1 /\ attn[2][3] = 1

\* C7: the durations are non-negative integers, sum to the valid decoder
\* length, and are 0 beyond the valid encoder length.
C7_DurationsSumToDecoderLength ==
    AlignComputed =>
        /\ \A i \in 1..T_en : dr_mas[i] \in Nat
        /\ SumTo(dr_mas, T_en) = y_len
        /\ \A i \in (x_len + 1)..T_en : dr_mas[i] = 0

\* C7 witness: a padded item (both axes) with unequal durations.
C7_Witness ==
    /\ AlignComputed /\ x_len = 2 /\ y_len = 3 /\ T_en = 3 /\ T_de >= 3
    /\ dr_mas = <<1, 2, 0>>

\* C8: the matrix rebuilt from the durations is 0/1, every valid frame (column)
\* sums to 1 and every encoder position (row) sums to its duration.
C8_DurationRoundTrip ==
    pc = "align_done" =>
        /\ \A i \in 1..T_en : \A j \in 1..T_de : attn_dr[i][j] \in {0, 1}
        /\ \A j \in 1..y_len : SumTo([i \in 1..T_en |-> attn_dr[i][j]], T_en) = 1
        /\ \A i \in 1..T_en : SumTo(attn_dr[i], T_de) = dr_mas[i]
        /\ DrMas(attn_dr, T_en, T_de) = dr_mas

\* C8 witness: durations <<2, 1>> of a padded item rebuilt as the staircase.
C8_Witness ==
    /\ pc = "align_done" /\ x_len = 2 /\ y_len = 3 /\ T_en = 3
    /\ dr_mas = <<2, 1, 0>>
    /\ attn_dr[1][1] = 1 /\ attn_dr[1][2] = 1 /\ attn_dr[2][3] = 1


\* =================================================== EmissionModel.sample
\* the standard-normal variate behind one draw
Noise == {-1, 0, 1}

\* line 420: the condition, sampling_temp > 0
DrawsAtZero(temp) == temp >= 0
Draws(temp) == temp > 0

\* line 420: Normal(means, stds * sampling_temp).sample() if the condition holds,
\* else means.  The result records whether a distribution was drawn from, its
\* location and scale, and the value returned.
EmissionSample(mu, sigma, temp, eps) ==
    IF Draws(temp)
    THEN [drawn |-> TRUE, loc |-> mu, scale |-> sigma * temp,
          value |-> mu + (sigma * temp) * eps]
    ELSE [drawn |-> FALSE, loc |-> mu, scale |-> 0, value |-> mu]

EmissionSampleInit ==
    /\ SampleIdle
    /\ PhaseIdle
    /\ HubIdle
    /\ ForwardIdle
    /\ TransitionIdle
    /\ AlignIdle
    /\ FormatDurationsIdle
    /\ pc = "emission_sample_call"
    /\ N = 0 /\ t = 0
    /\ means \in 0..MaxMean
    /\ stds \in 1..MaxStd
    /\ sampling_temp \in -1..MaxTemp
    /\ x_t = <<>>

\* lines 419-420
EmissionSampleCall ==
    /\ pc = "emission_sample_call"
    /\ \E eps \in Noise : x_t' = EmissionSample(means, stds, sampling_temp, eps)
    /\ pc' = "emission_sampled"
    /\ UNCHANGED <<means, stds, sampling_temp>>
    /\ UNCHANGED <<N, t, sconf, fvars, tvars, avars, dvars, pvars, hvars>>

EmissionSampleNext == EmissionSampleCall

SpecEmissionSample == EmissionSampleInit /\ [][EmissionSampleNext]_vars

\* C16 (as claimed): sample returns the means when the temperature is 0 and for
\* every other temperature draws from a Gaussian of standard deviation
\* stds * temperature.
C16_DrawsUnlessTemperatureZero ==
    pc = "emission_sampled" =>
        IF sampling_temp = 0
        THEN ~x_t.drawn /\ x_t.value = means
        ELSE x_t.drawn /\ x_t.loc = means /\ x_t.scale = stds * sampling_temp

\* C16 (amended): sample returns the means when the temperature is 0 or below,
\* and for every temperature above 0 draws from a Gaussian located at the means
\* with standard deviation stds * temperature.
C16_DrawsWhenTemperaturePositive ==
    pc = "emission_sampled" =>
        IF sampling_temp > 0
        THEN x_t.drawn /\ x_t.loc = means /\ x_t.scale = stds * sampling_temp
        ELSE ~x_t.drawn /\ x_t.value = means

\* C16 witness: a draw at temperature 2 that landed away from the mean.
C16_Witness ==
    /\ pc = "emission_sampled" /\ sampling_temp = 2 /\ stds = 3
    /\ x_t.drawn /\ x_t.scale = 6 /\ x_t.value = means + 6


\* =============================================== AlignTTS.format_durations
\* exp(o_dr_log) - 1, o_dr_log held as its exponential
ExpMinusOne(e) == RAdd(e, <<-1, 1>>)

\* torch.round of a value >= 1: the nearest integer, a half going to the even one
Round(a) ==
    LET f == a[1] \div a[2]
        r == a[1] % a[2]
    IN IF 2 * r < a[2] THEN f
       ELSE IF 2 * r > a[2] THEN f + 1
       ELSE IF f % 2 = 0 THEN f ELSE f + 1

\* lines 150-154
FormatDurationsNoFloor(log_row, mask_len, scale, n) ==
    [i \in 1..n |->
        Round(RMul(RMul(ExpMinusOne(log_row[i]), <<SequenceMask(mask_len, i), 1>>),
                   scale))]
FormatDurations(log_row, mask_len, scale, n) ==
    [i \in 1..n |->
        LET v == RMul(RMul(ExpMinusOne(log_row[i]), <<SequenceMask(mask_len, i), 1>>),
                      scale)
        IN IF RLess(v, <<1, 1>>) THEN 1 ELSE Round(v)]

\* the exponentials of the predicted log-durations, and the length scales
ExpDurations == {<<1, 2>>, <<1, 1>>, <<3, 2>>, <<2, 1>>, <<5, 2>>, <<7, 2>>}
LengthScales == {<<1, 2>>, <<1, 1>>, <<2, 1>>}

FormatDurationsInit ==
    /\ SampleIdle
    /\ PhaseIdle
    /\ HubIdle
    /\ ForwardIdle
    /\ TransitionIdle
    /\ AlignIdle
    /\ EmissionSampleIdle
    /\ pc = "format_call"
    /\ N = 0 /\ t = 0
    /\ \E n \in 1..FdMaxTen :
         /\ o_dr_log \in [1..n -> ExpDurations]
         /\ x_mask_len \in 1..n
    /\ length_scale \in LengthScales
    /\ o_dr = <<>>
    /\ y_lengths = <<>>
    /\ alignments = <<>>

\* lines 150-154, and lines 286-287 of inference: y_lengths = o_dr.sum(1) and
\* the attention _forward_decoder builds from o_dr (lines 194-196)
FormatDurationsCall ==
    /\ pc = "format_call"
    /\ LET n == Len(o_dr_log)
           d == FormatDurations(o_dr_log, x_mask_len, length_scale, n)
           total == SumTo(d, n)
       IN /\ o_dr' = d
          /\ y_lengths' = Append(y_lengths, <<length_scale, total>>)
          /\ alignments' = ConvertDrToAlign(d, x_mask_len, total, n, total)
    /\ pc' = "format_done"
    /\ UNCHANGED <<o_dr_log, x_mask_len, length_scale>>
    /\ UNCHANGED <<N, t, sconf, fvars, tvars, avars, evars, pvars, hvars>>

\* line 86: self.length_scale given another value before the next call
SetLengthScale ==
    /\ pc = "format_done"
    /\ \E ls \in LengthScales :
         /\ \A k \in 1..Len(y_lengths) : y_lengths[k][1] # ls
         /\ length_scale' = ls
    /\ pc' = "format_call"
    /\ UNCHANGED <<o_dr_log, x_mask_len, o_dr, y_lengths, alignments>>
    /\ UNCHANGED <<N, t, sconf, fvars, tvars, avars, evars, pvars, hvars>>

FormatDurationsNext == FormatDurationsCall \/ SetLengthScale

SpecFormatDurations == FormatDurationsInit /\ [][FormatDurationsNext]_vars

\* C17 (as claimed): for fixed predicted log-durations the total output length
\* does not grow with length_scale: of two calls, the one with the larger
\* length_scale gives a total no longer than the other.
C17_LargerScaleNeverLonger ==
    \A a \in 1..Len(y_lengths) : \A b \in 1..Len(y_lengths) :
        RLess(y_lengths[a][1], y_lengths[b][1]) => y_lengths[b][2] <= y_lengths[a][2]

\* what the code does instead: the total never shrinks as length_scale grows
LargerScaleNeverShorter ==
    \A a \in 1..Len(y_lengths) : \A b \in 1..Len(y_lengths) :
        RLess(y_lengths[a][1], y_lengths[b][1]) => y_lengths[b][2] >= y_lengths[a][2]


\* ============================================ HMM.sample: budget, decisions
RECURSIVE RProduct(_)
RProduct(seq) == IF seq = <<>> THEN <<1, 1>> ELSE RMul(seq[1], RProduct(Tail(seq)))

C24_PrenetSeesEmittedFrames ==
    (SampleRunning /\ Len(x) >= 2) =>
        sample_prenet_input = ExpectedWindow(Len(x) - 1, ar_order)

\* what the code does instead: the prenet sees the go tokens at every step,
\* while ar_mel_inputs holds the window the next step would need
PrenetAlwaysSeesGoTokens ==
    (SampleRunning /\ Len(x) >= 1) =>
        /\ sample_prenet_input = GoTokens(ar_order)
        /\ ar_mel_inputs = ExpectedWindow(Len(x), ar_order)


\* ============================================== HMM.forward called repeatedly
ForwardRunning == pc \in {"forward_loop", "forward_masked", "forward_done"}

\* C25: whatever calls came before, during and after a forward call the scaled
\* log-alpha and the transition-vector cache have this call's T_max rows of N
\* values, self.means has one entry per timestep done in this call (T_max on
\* return), and the memory-cell state is zero at the start of the call and has
\* been updated once per timestep with this call's prenet input.
C25_PerCallStateIsFresh ==
    ForwardRunning =>
        /\ Len(log_alpha_scaled) = T_max /\ Len(transition_vector) = T_max
        /\ \A k \in 1..T_max : Len(log_alpha_scaled[k]) = N /\ Len(transition_vector[k]) = N
        /\ \A k \in (t + 1)..T_max :
              /\ log_alpha_scaled[k] = [i \in 1..N |-> LZero]
              /\ transition_vector[k] = [i \in 1..N |-> 0]
        /\ Len(hmm_means) = t /\ Len(h_memory) = t
        /\ pc = "forward_done" => Len(hmm_means) = T_max
        /\ \A k \in 1..t :
              /\ h_memory[k] = PrenetInput(k - 1, AddGoToken(ar_order, T_max), ar_order)
              /\ hmm_means[k] = SubSeq(h_memory, 1, k)

\* C25 witness: the second call on a module, with one frame and one state, has
\* returned.
C25_Witness ==
    /\ pc = "forward_done" /\ calls = 2 /\ T_max = 1 /\ N = 1
    /\ Len(hmm_means) = 1 /\ Len(log_alpha_scaled) = 1

\* a second call is entered while the attributes still hold a longer call's data
StaleAttributesAtCall ==
    /\ pc = "forward_call" /\ calls = 1 /\ T_max = 1 /\ N = 1
    /\ Len(hmm_means) = 2 /\ Len(log_alpha_scaled) = 2 /\ Len(log_alpha_scaled[1]) = 2


\* ========================================= AlignTTS.expand_encoder_outputs
\* encoder output i repeated dur[i] times, positions 1..n in order
RECURSIVE RepeatEach(_, _, _)
RepeatEach(en, dur, n) ==
    IF n = 0 THEN <<>>
    ELSE RepeatEach(en, dur, n - 1) \o [k \in 1..dur[n] |-> en[n]]

\* C26: the expanded sequence is encoder output i repeated dr[i] times, in
\* encoder order and in contiguous blocks: its first sum(dr) frames are exactly
\* those repeats, and the frames the batch padding adds after them are zero.
C26_ExpandRepeatsByDuration ==
    pc = "align_expanded" =>
        LET total == SumTo(dr_mas, T_en)
        IN /\ Len(o_en_ex) = T_de
           /\ total <= T_de
           /\ SubSeq(o_en_ex, 1, total) = RepeatEach(En(T_en), dr_mas, T_en)
           /\ \A j \in (total + 1)..T_de : o_en_ex[j] = 0

\* C26 witness: three encoder positions with durations 1, 2 (and 0 for the
\* padded one) expanded to a, b, b.
C26_Witness ==
    /\ pc = "align_expanded" /\ T_en = 3 /\ x_len = 2 /\ y_len = 3
    /\ dr_mas = <<1, 2, 0>>
    /\ SubSeq(o_en_ex, 1, 3) = <<1, 2, 2>>


\* ================================= AlignTTS.inference: durations and frames
\* C29: every duration format_durations returns is an integer of at least 1,
\* masked positions included; in inference, where x_mask is all ones, the
\* decoder length is at least the number of input positions and every decoder
\* frame is attended by exactly one input position.
C29_DurationsAtLeastOne ==
    pc = "format_done" =>
        LET n == Len(o_dr_log)
            total == y_lengths[Len(y_lengths)][2]
        IN /\ Len(o_dr) = n
           /\ \A i \in 1..n : o_dr[i] \in Nat /\ o_dr[i] >= 1
           /\ total = SumTo(o_dr, n)
           /\ total >= n
           /\ x_mask_len = n =>
                 \A j \in 1..total :
                     Cardinality({i \in 1..n : alignments[i][j] = 1}) = 1

\* C29 witness: two positions predicted shorter than one frame (exp(o_dr_log)
\* - 1 = -1/2 and 0) both get duration 1 and the two frames one position each.
C29_Witness ==
    /\ pc = "format_done" /\ x_mask_len = 2
    /\ o_dr_log = <<(<<1, 2>>), (<<1, 1>>)>>
    /\ o_dr = <<1, 1>>
    /\ alignments = <<(<<1, 0>>), (<<0, 1>>)>>


\* ================================================ AlignTTS training phases
\* line 365: phase = None, held as an integer that is no index and no phase
PhaseNone == -2

\* line 354: vals = [i < global_step for i in config.phase_start_steps]
ValsNotStrict(steps, global_step) == [k \in 1..Len(steps) |-> steps[k] <= global_step]
Vals(steps, global_step) == [k \in 1..Len(steps) |-> steps[k] < global_step]

\* [::-1]
Reversed(seq) == [k \in 1..Len(seq) |-> seq[Len(seq) + 1 - k]]

\* list.index(True): the 0-based position of the first True
IndexOfTrue(seq) ==
    (CHOOSE k \in 1..Len(seq) : seq[k] /\ \A m \in 1..(k - 1) : ~seq[m]) - 1

\* lines 351-366
SetPhase(config, global_step) ==
    IF config.is_list
    THEN LET vals == Vals(config.vals, global_step)
         IN IF \A k \in 1..Len(vals) : ~vals[k]
            THEN 0
            ELSE Len(config.vals) - IndexOfTrue(Reversed(vals)) - 1
    ELSE PhaseNone

\* lines 227-256: which locals of forward hold a tensor (TRUE) and which are
\* still None (FALSE) when the branch of the phase is done
ForwardLocals(ph) ==
    [o_de |-> ph # 0,
     attn |-> TRUE,
     o_dr_log |-> ph \notin {0, 1, 2},
     dr_mas |-> TRUE,
     mu |-> ph # 1,
     log_sigma |-> ph # 1,
     logp |-> ph # 1]

\* lines 257-267: o_de.transpose(1, 2) needs a tensor; every other entry of the
\* dictionary takes its local as it is
Forward(ph) ==
    LET l == ForwardLocals(ph)
    IN IF ~l.o_de
       THEN [raised |-> "AttributeError", outputs |-> {}]
       ELSE [raised |-> "",
             outputs |-> {<<"model_outputs", l.o_de>>, <<"alignments", l.attn>>,
                          <<"durations_log", l.o_dr_log>>,
                          <<"durations_mas_log", l.dr_mas>>, <<"mu", l.mu>>,
                          <<"log_sigma", l.log_sigma>>, <<"logp", l.logp>>}]

PhaseStartSteps ==
    {[is_list |-> FALSE, vals |-> <<>>]}
      \cup {[is_list |-> TRUE, vals |-> v] :
              v \in UNION {[1..n -> 0..MaxStartStep] : n \in 0..MaxPhases}}

\* a constructed model (line 85: self.phase = -1) and a trainer configuration
PhaseInit ==
    /\ SampleIdle
    /\ ForwardIdle
    /\ TransitionIdle
    /\ AlignIdle
    /\ EmissionSampleIdle
    /\ FormatDurationsIdle
    /\ HubIdle
    /\ pc = "constructed"
    /\ N = 0 /\ t = 0
    /\ phase_start_steps \in PhaseStartSteps
    /\ total_steps_done = 0
    /\ phase = -1
    /\ outputs = {}
    /\ raised = ""

\* lines 368-370; the trainer's step counter has not gone down since the
\* last epoch
OnEpochStart ==
    /\ pc \in {"constructed", "epoch_start", "train_step"}
    /\ raised = ""
    /\ \E s \in total_steps_done..MaxSteps :
         /\ total_steps_done' = s
         /\ phase' = SetPhase(phase_start_steps, s)
    /\ pc' = "epoch_start"
    /\ UNCHANGED <<phase_start_steps, outputs, raised>>
    /\ UNCHANGED <<N, t, sconf, fvars, tvars, avars, evars, dvars, hvars>>

\* lines 291-300: train_step calls forward with self.phase
TrainStep ==
    /\ pc \in {"constructed", "epoch_start", "train_step"}
    /\ raised = ""
    /\ outputs' = Forward(phase).outputs
    /\ raised' = Forward(phase).raised
    /\ pc' = "train_step"
    /\ UNCHANGED <<phase_start_steps, total_steps_done, phase>>
    /\ UNCHANGED <<N, t, sconf, fvars, tvars, avars, evars, dvars, hvars>>

PhaseNext == OnEpochStart \/ TrainStep

SpecPhase == PhaseInit /\ [][PhaseNext]_vars

\* the largest 0-based index whose entry is below the step, 0 when there is none
LargestIndexBelow(steps, global_step) ==
    LET below == {k \in 1..Len(steps) : steps[k] < global_step}
    IN IF below = {} THEN 0
       ELSE (CHOOSE k \in below : \A m \in below : m <= k) - 1

PhaseAsDescribed ==
    pc = "epoch_start" =>
        IF phase_start_steps.is_list
        THEN phase = LargestIndexBelow(phase_start_steps.vals, total_steps_done)
        ELSE phase = PhaseNone

PhaseNeverDecreases ==
    [][phase_start_steps.is_list => phase' >= phase]_vars

\* C27 (as claimed): for a list, the phase is the largest index whose entry is
\* strictly below the step (0 when there is none), always one of 0..len-1, and
\* never decreases from one epoch start to the next; None for a non-list.
C27_PhaseAlwaysAnIndex ==
    /\ [](PhaseAsDescribed
          /\ ((pc = "epoch_start" /\ phase_start_steps.is_list) =>
                 phase \in 0..(Len(phase_start_steps.vals) - 1)))
    /\ PhaseNeverDecreases

\* C27 (amended): as claimed, the range 0..len-1 holding for a list that is not
\* empty; for the empty list the phase is 0.
C27_PhaseIsLargestIndexBelow ==
    /\ [](PhaseAsDescribed
          /\ ((pc = "epoch_start" /\ phase_start_steps.is_list) =>
                 IF phase_start_steps.vals = <<>>
                 THEN phase = 0
                 ELSE phase \in 0..(Len(phase_start_steps.vals) - 1)))
    /\ PhaseNeverDecreases

\* C27 witness: with start steps 0, 1, 2 the epoch starting at step 2 is in
\* phase 1 (entry 2 is not strictly below the step).
C27_Witness ==
    /\ pc = "epoch_start" /\ phase_start_steps = [is_list |-> TRUE, vals |-> <<0, 1, 2>>]
    /\ total_steps_done = 2 /\ phase = 1

\* the empty list: phase 0 with no index to be had
EmptyListGivesPhaseZero ==
    /\ pc = "epoch_start" /\ phase_start_steps = [is_list |-> TRUE, vals |-> <<>>]
    /\ phase = 0

OutputKeys ==
    {"model_outputs", "alignments", "durations_log", "durations_mas_log", "mu",
     "log_sigma", "logp"}

\* C28 (as claimed): in every phase, -1 and 0 included, forward returns the
\* dictionary with the seven keys.
C28_ForwardReturnsInEveryPhase ==
    pc = "train_step" => raised = "" /\ {kv[1] : kv \in outputs} = OutputKeys

\* what the code does: the dictionary in every phase but 0, AttributeError in
\* phase 0
ForwardReturnsUnlessPhaseZero ==
    pc = "train_step" =>
        IF phase = 0
        THEN raised = "AttributeError" /\ outputs = {}
        ELSE raised = "" /\ {kv[1] : kv \in outputs} = OutputKeys


\* ================================================ TTS.auto_tts.model_hub
\* lines 3-9: the config objects the module imports from the recipes
ConfigNames ==
    {"glowtts_config", "vits_config", "hifigan_config", "wavegrad_config",
     "multiband_melgan_config", "univnet_config", "waverrn_config"}

\* a config as its recipe built it; 0 stands for the recipe's own value
RecipeConfig ==
    [audio |-> 0, data |-> 0, batch_size |-> 0, eval_batch_size |-> 0, lr |-> 0,
     output_path |-> 0]

\* the audio configs and datasets a caller hands over
Audios == {1, 2}
Datasets == {1}

\* TtsModels(...) and VocoderModels(...): the fields __init__ stores
HubObjects ==
    {[batch_size |-> b, learning_rate |-> 1, output_path |-> 1] : b \in 1..MaxBatchSize}

\* the attribute assignments of a factory body, onto the object obj
AssignedConfig(obj, self, audio, data) ==
    [obj EXCEPT !.audio = audio, !.data = data, !.batch_size = self.batch_size,
                !.eval_batch_size = self.batch_size \div 2,
                !.lr = self.learning_rate, !.output_path = self.output_path]

\* config = <name>; return config: the module-level object itself is returned
Factory(name) ==
    /\ pc = "hub"
    /\ Len(returned) < MaxHubCalls
    /\ \E self \in HubObjects, audio \in Audios, data \in Datasets :
         /\ configs' = [configs EXCEPT ![name] = AssignedConfig(configs[name], self, audio, data)]
         /\ returned' = Append(returned,
                               [ref |-> name,
                                given |-> AssignedConfig(RecipeConfig, self, audio, data)])
    /\ UNCHANGED <<pc, N, t, sconf, fvars, tvars, avars, evars, dvars, pvars>>

\* lines 190-202
SingleSpeakerGlowTts == Factory("glowtts_config")
\* lines 268-278
SingleSpeakerVitsTts == Factory("vits_config")
\* lines 314-325
HifiGan == Factory("hifigan_config")
\* lines 327-338
Wavegrad == Factory("wavegrad_config")
\* lines 340-351
MultibandMelgan == Factory("multiband_melgan_config")
\* lines 353-364
Univnet == Factory("univnet_config")
\* lines 366-377
Wavernn == Factory("waverrn_config")

HubInit ==
    /\ SampleIdle
    /\ ForwardIdle
    /\ TransitionIdle
    /\ AlignIdle
    /\ EmissionSampleIdle
    /\ FormatDurationsIdle
    /\ PhaseIdle
    /\ pc = "hub"
    /\ N = 0 /\ t = 0
    /\ configs = [name \in ConfigNames |-> RecipeConfig]
    /\ returned = <<>>

HubNext ==
    \/ SingleSpeakerGlowTts \/ SingleSpeakerVitsTts
    \/ HifiGan \/ Wavegrad \/ MultibandMelgan \/ Univnet \/ Wavernn

SpecModelHub == HubInit /\ [][HubNext]_vars

\* C30 (as claimed): every config returned so far still holds the audio, data,
\* batch size, learning rate and output path of the call that returned it.
C30_ReturnedConfigsKeepTheirValues ==
    \A k \in 1..Len(returned) : configs[returned[k].ref] = returned[k].given

\* what the code does: a returned config holds the values of the latest call of
\* its factory; only calls of other factories leave it alone
ReturnedConfigsHoldLatestCall ==
    \A k \in 1..Len(returned) :
        LET same == {m \in 1..Len(returned) : returned[m].ref = returned[k].ref}
            last == CHOOSE m \in same : \A o \in same : o <= m
        IN configs[returned[k].ref] = returned[last].given

=============================================================================
